---- MODULE Spec2Model ----
(***************************************************************************)
(* Model of roe-hmlr-matching.py: the name normaliser clean_company_name,  *)
(* the wide-to-long reshape of the HMLR extract, and the reconciliation    *)
(* pipeline of main().                                                     *)
(*                                                                         *)
(* A Python str is a sequence of one-character strings.  A DataFrame is a  *)
(* sequence of records (its rows, in index order).                         *)
(***************************************************************************)
EXTENDS Integers, Sequences, FiniteSets, TLC

VARIABLES
    pc,                         \* position of main(): start, save_hmlr, save_roe, stats, done, error
    hmlr_df,                    \* main: hmlr_df after lines 226-248
    roe_df,                     \* main: roe_df after lines 232-244
    exclusions_df,              \* main: exclusions_df["clean_entity_name"]
    hmlr_unmatched_in_roe_df,   \* main: line 256
    roe_unmatched_in_hmlr_df,   \* main: line 266
    outputs,                    \* the files to_excel has written under ./outputs
    stats,                      \* the figures of lines 283-299
    error,                      \* the exception main() ended with, or "none"
    npc,                        \* position of a caller of clean_company_name
    company_name,               \* the argument of clean_company_name
    key,                        \* clean_company_name(company_name)
    rekey,                      \* clean_company_name(key)
    rpc,                        \* position of a caller of reshape_hmlr_proprietors
    wide_df,                    \* the argument of reshape_hmlr_proprietors
    long_df                     \* reshape_hmlr_proprietors(wide_df)

vars == <<pc, hmlr_df, roe_df, exclusions_df, hmlr_unmatched_in_roe_df,
          roe_unmatched_in_hmlr_df, outputs, stats, error,
          npc, company_name, key, rekey, rpc, wide_df, long_df>>

pipeline_vars == <<pc, hmlr_df, roe_df, exclusions_df, hmlr_unmatched_in_roe_df,
                   roe_unmatched_in_hmlr_df, outputs, stats, error>>

normaliser_vars == <<npc, company_name, key, rekey>>

reshape_vars == <<rpc, wide_df, long_df>>

(***************************************************************************)
(* Characters.  Code gives the code point, which is what Python compares   *)
(* strings by.                                                             *)
(***************************************************************************)
Code ==
    ("\t" :> 9) @@ ("\n" :> 10) @@ (" " :> 32) @@ ("&" :> 38) @@ ("," :> 44) @@
    ("-" :> 45) @@ ("." :> 46) @@ ("1" :> 49) @@ ("2" :> 50) @@
    ("A" :> 65) @@ ("B" :> 66) @@ ("C" :> 67) @@ ("D" :> 68) @@ ("E" :> 69) @@
    ("I" :> 73) @@ ("L" :> 76) @@ ("M" :> 77) @@ ("N" :> 78) @@ ("R" :> 82) @@
    ("S" :> 83) @@ ("T" :> 84) @@ ("_" :> 95) @@
    ("a" :> 97) @@ ("b" :> 98) @@ ("c" :> 99) @@ ("d" :> 100) @@ ("e" :> 101) @@
    ("i" :> 105) @@ ("l" :> 108) @@ ("m" :> 109) @@ ("n" :> 110) @@ ("o" :> 111) @@
    ("p" :> 112) @@ ("r" :> 114) @@ ("s" :> 115) @@ ("t" :> 116) @@ ("x" :> 120) @@
    ("y" :> 121)

Chars == DOMAIN Code

UpperLetters == {c \in Chars : Code[c] >= 65 /\ Code[c] <= 90}

LowerLetters == {c \in Chars : Code[c] >= 97 /\ Code[c] <= 122}

Digits == {c \in Chars : Code[c] >= 48 /\ Code[c] <= 57}

\* re: \s
IsSpace(c) == c \in {" ", "\t", "\n"}

\* re: \w (letters, digits and the underscore); \d is a subset of it
IsWord(c) == c \in UpperLetters \cup LowerLetters \cup Digits \cup {"_"}

\* str.lower() on one character
Lower(c) ==
    IF c \in UpperLetters
    THEN CHOOSE l \in LowerLetters : Code[l] = Code[c] + 32
    ELSE c

(***************************************************************************)
(* String helpers (Python str methods and re.sub).                         *)
(***************************************************************************)
str_lower(s) == [i \in 1..Len(s) |-> Lower(s[i])]

\* re.sub(r"[^\w\d\s]", "", s)
sub_non_word(s) == SelectSeq(s, LAMBDA c : IsWord(c) \/ IsSpace(c))

\* re.sub(" ", "", s): only the space character, no other whitespace
sub_space(s) == SelectSeq(s, LAMBDA c : c # " ")

\* one match of \ss\w\srl ending at position e of s
srl_at(s, e) ==
    /\ e >= 6
    /\ IsSpace(s[e - 5])
    /\ s[e - 4] = "s"
    /\ IsWord(s[e - 3])
    /\ IsSpace(s[e - 2])
    /\ s[e - 1] = "r"
    /\ s[e] = "l"

\* re.sub(r"\ss\w\srl$", "", s); $ matches at the end and before a final newline
sub_srl(s) ==
    LET n == Len(s) IN
    IF srl_at(s, n) THEN SubSeq(s, 1, n - 6)
    ELSE IF n >= 7 /\ s[n] = "\n" /\ srl_at(s, n - 1)
         THEN SubSeq(s, 1, n - 7) \o <<"\n">>
         ELSE s

RECURSIVE split_from(_, _, _)
split_from(s, i, cur) ==
    IF i > Len(s)
    THEN (IF cur = <<>> THEN <<>> ELSE <<cur>>)
    ELSE IF IsSpace(s[i])
         THEN (IF cur = <<>> THEN <<>> ELSE <<cur>>) \o split_from(s, i + 1, <<>>)
         ELSE split_from(s, i + 1, Append(cur, s[i]))

\* str.split(): the whitespace-separated tokens
split(s) == split_from(s, 1, <<>>)

RECURSIVE join(_)
\* " ".join(parts)
join(parts) ==
    IF parts = <<>> THEN <<>>
    ELSE IF Len(parts) = 1 THEN parts[1]
         ELSE parts[1] \o <<" ">> \o join(Tail(parts))

(***************************************************************************)
(* cleanco.clean.basename, as the library computes it: the name is split   *)
(* into tokens, one pass is made over the suffix terms (most tokens first, *)
(* then alphabetical), each term that equals the last tokens is deleted,   *)
(* and the remaining tokens are joined by single spaces.                   *)
(***************************************************************************)
\* a part of the library's suffix vocabulary, in prepare_default_terms order
Terms ==
    << << <<"p","t","y">>, <<"l","t","d">> >>,
       << <<"c","o">> >>,
       << <<"i","n","c">> >>,
       << <<"l","i","m","i","t","e","d">> >>,
       << <<"l","t","d">> >>,
       << <<"s","a">> >>,
       << <<"s","r","l">> >> >>

RECURSIVE strip_tail(_)
\* cleanco strip_tail: drop the trailing run of [^\.\w]
strip_tail(s) ==
    IF s = <<>> THEN s
    ELSE IF IsWord(s[Len(s)]) \/ s[Len(s)] = "." THEN s
         ELSE strip_tail(SubSeq(s, 1, Len(s) - 1))

\* cleanco strip_punct
strip_punct(t) == SelectSeq(t, LAMBDA c : c \notin {".", ",", "-"})

\* Python xs[-n:]
last_n(xs, n) == IF Len(xs) <= n THEN xs ELSE SubSeq(xs, Len(xs) - n + 1, Len(xs))

\* Python del xs[-n:]
del_last_n(xs, n) == IF Len(xs) <= n THEN <<>> ELSE SubSeq(xs, 1, Len(xs) - n)

RECURSIVE strip_terms(_, _, _)
\* the suffix loop of custom_basename, from term k on
strip_terms(nparts, nnparts, k) ==
    IF k > Len(Terms) THEN nparts
    ELSE LET termparts == Terms[k]
             termsize == Len(termparts)
         IN IF last_n(nnparts, termsize) = termparts
            THEN strip_terms(del_last_n(nparts, termsize),
                             del_last_n(nnparts, termsize), k + 1)
            ELSE strip_terms(nparts, nnparts, k + 1)

basename(name) ==
    LET stripped == strip_tail(name)
        nparts == split(stripped)
        nnparts == [i \in 1..Len(nparts) |-> strip_punct(str_lower(nparts[i]))]
    IN strip_tail(join(strip_terms(nparts, nnparts, 1)))

(***************************************************************************)
(* clean_company_name, lines 62-75, statement by statement.                *)
(***************************************************************************)
clean_company_name(name) ==
    LET s1 == str_lower(name)
        s2 == sub_non_word(s1)
        s3 == basename(s2)
        s4 == sub_space(s3)
        s5 == sub_srl(s4)
    IN s5

(***************************************************************************)
(* Callers of clean_company_name on one string, and on its own result.     *)
(***************************************************************************)
MaxLen == 4

Alphabet == {"s", "a", "A", " ", "\t", "_"}

Strings(n) == UNION {[1..m -> Alphabet] : m \in 0..n}

Samples ==
    { <<"a","c","m","e">>,
      <<"a","c","m","e"," ","s"," ","r"," ","l">>,
      <<"A","c","m","e"," ","L","t","d",".">>,
      <<"A","C","M","E"," ","L","I","M","I","T","E","D">>,
      <<"a","c","m","e"," ","c","o"," ","l","t","d">>,
      <<"a","c","m","e"," ","p","t","y"," ","l","t","d">>,
      <<"a","c","m","e","\t","s","a","\t","r","l">>,
      <<"l"," ","t"," ","d">>,
      <<"a","-","1","&","b",",","2">>,
      <<"a","_","b","\n">> }

InputStrings == Strings(MaxLen) \cup Samples

(***************************************************************************)
(* Tables.  A cell holds a string, NaN (an empty spreadsheet cell) or None *)
(* (a database NULL).                                                      *)
(***************************************************************************)
NaN == <<"<NaN>">>

None == <<"<None>">>

IsNull(v) == v \in {NaN, None}

\* Series.astype(str), then str() in clean_company_name: a null becomes its name
astype_str(v) ==
    IF v = NaN THEN <<"n","a","n">>
    ELSE IF v = None THEN <<"N","o","n","e">>
    ELSE v

NUM_PROPRIETORS == 4

\* the proprietor_name_1..4 cells of the HMLR rows main() reads
HmlrRows ==
    { << <<"A","c","m","e">>, NaN, <<" "," ">>, NaN >>,
      << <<"A","C","M","E"," ","L","T","D">>, <<"B","e","t","a"," ","I","n","c">>, NaN, NaN >>,
      << NaN, NaN, NaN, NaN >>,
      << <<"D","e","l","t","a">>, NaN, NaN, <<"B","e","t","a">> >> }

\* the proprietor_name_1..4 cells of the rows reshape_hmlr_proprietors is tried on
ReshapeRows ==
    { << <<"A","c","m","e">>, <<>>, NaN, <<" "," ">> >>,
      << <<"B","e","t","a">>, <<"A","c","m","e">>, <<"D","e","l","t","a">>, <<"C","o">> >>,
      << NaN, NaN, NaN, NaN >>,
      << NaN, <<"B","e","t","a">>, None, <<"A","c","m","e">> >> }

\* the corporate_body_name cells of the ROE rows the model reads
RoeNames ==
    { <<"A","C","M","E"," ","L","I","M","I","T","E","D">>,
      <<"D","e","l","t","a">>,
      None }

\* the "entity name (from hmlr datasets)" cells of the exclusion list
ExclusionNames ==
    { <<"B","e","t","a"," ","I","n","c",".">>,
      <<"D","e","l","t","a">> }

MaxRows == 2

MaxTableRows == 3

MaxRoe == 2

MaxExclusions == 1

\* a wide table of the given rows; slot i's address cell is tagged i
wide_table(rows) ==
    [r \in 1..Len(rows) |-> [title_number |-> r,
                             proprietor_name |-> rows[r],
                             proprietor_address_1 |-> [i \in 1..NUM_PROPRIETORS |-> i]]]

\* get_newest_hmlr_file: the wide table
HmlrTables == UNION {{wide_table(rows) : rows \in [1..n -> HmlrRows]} : n \in 0..MaxRows}

ReshapeTables ==
    UNION {{wide_table(rows) : rows \in [1..n -> ReshapeRows]} : n \in 0..MaxTableRows}

\* get_roe_data: the query result
RoeTables ==
    UNION {
        { [r \in 1..n |-> [incorporation_number |-> r,
                           corporate_body_name |-> names[r]]]
          : names \in [1..n -> RoeNames] }
        : n \in 0..MaxRoe }

\* get_newest_exclusion_list: the entity-name column
ExclusionLists == UNION {[1..n -> ExclusionNames] : n \in 0..MaxExclusions}

(***************************************************************************)
(* reshape_hmlr_proprietors, lines 161-213.                                *)
(***************************************************************************)
\* lines 174-206: the columns of slot i, renamed
temp_df(df, i) ==
    [r \in 1..Len(df) |->
        [title_number |-> df[r].title_number,
         proprietor_name |-> df[r].proprietor_name[i],
         proprietor_address_1 |-> df[r].proprietor_address_1[i]]]

RECURSIVE melt_from(_, _)
\* lines 172-208: the loop over the slots, each pass appended by pd.concat
melt_from(df, i) ==
    IF i > NUM_PROPRIETORS THEN <<>>
    ELSE temp_df(df, i) \o melt_from(df, i + 1)

\* line 211: dropna(subset=["proprietor_name"])
dropna(df) == SelectSeq(df, LAMBDA rec : ~IsNull(rec.proprietor_name))

RECURSIVE rows_from(_, _)
\* the slots of row r, then those of the rows after it
rows_from(df, r) ==
    IF r > Len(df) THEN <<>>
    ELSE [i \in 1..NUM_PROPRIETORS |-> temp_df(df, i)[r]] \o rows_from(df, r + 1)

\* the reshape with the loops exchanged: row by row
reshape_row_major(df) == dropna(rows_from(df, 1))

reshape_hmlr_proprietors(df) == dropna(melt_from(df, 1))

(***************************************************************************)
(* DataFrame helpers.                                                      *)
(***************************************************************************)
\* Series.isin
isin(k, col) == \E i \in 1..Len(col) : col[i] = k

RECURSIVE str_lt(_, _)
\* Python a < b on str: by code point, a proper prefix first
str_lt(a, b) ==
    IF b = <<>> THEN FALSE
    ELSE IF a = <<>> THEN TRUE
    ELSE IF a[1] # b[1] THEN Code[a[1]] < Code[b[1]]
    ELSE str_lt(Tail(a), Tail(b))

RECURSIVE sorted_orders(_, _)
\* every ascending order of the indices I by k; the default sort kind
\* (quicksort) is not stable, so equal keys may come out in any order
sorted_orders(I, k) ==
    IF I = {} THEN {<<>>}
    ELSE LET first == {i \in I : \A j \in I : ~str_lt(k[j], k[i])}
         IN UNION {{<<i>> \o t : t \in sorted_orders(I \ {i}, k)} : i \in first}

\* the rows of df numbered by order, in that order
take(df, order) == [j \in 1..Len(order) |-> df[order[j]]]

RECURSIVE indices_from(_, _, _)
indices_from(I, i, n) ==
    IF i > n THEN <<>>
    ELSE (IF i \in I THEN <<i>> ELSE <<>>) \o indices_from(I, i + 1, n)

\* df[mask]: the rows whose index is in I, in index order
select(df, I) == take(df, indices_from(I, 1, Len(df)))

hmlr_keys(df) == [i \in 1..Len(df) |-> df[i].clean_proprietor_name]

roe_keys(df) == [i \in 1..Len(df) |-> df[i].clean_company_name]

(***************************************************************************)
(* main(), lines 217-319.                                                  *)
(***************************************************************************)
NoStats ==
    [printed |-> FALSE,
     hmlr_unique_proprietors_count |-> 0,
     hmlr_matched_roe_count |-> 0,
     hmlr_excluded_proprietors_count |-> 0,
     hmlr_unmatched_roe_count |-> 0,
     matched_roe_percentage |-> 0,
     roe_total |-> 0]

\* lines 227-230 and 246-248: the long table with its key and exclusion flag
hmlr_frame(table, excl) ==
    LET long == reshape_hmlr_proprietors(table) IN
    [i \in 1..Len(long) |->
        LET k == clean_company_name(astype_str(long[i].proprietor_name)) IN
        [title_number |-> long[i].title_number,
         proprietor_name |-> long[i].proprietor_name,
         proprietor_address_1 |-> long[i].proprietor_address_1,
         clean_proprietor_name |-> k,
         excluded_bool |-> isin(k, excl)]]

\* lines 232-235 and 242-244
roe_frame(table, excl) ==
    [i \in 1..Len(table) |->
        LET k == clean_company_name(astype_str(table[i].corporate_body_name)) IN
        [incorporation_number |-> table[i].incorporation_number,
         corporate_body_name |-> table[i].corporate_body_name,
         clean_company_name |-> k,
         excluded_bool |-> isin(k, excl)]]

\* lines 237-240
exclusions_frame(names) ==
    [i \in 1..Len(names) |-> clean_company_name(astype_str(names[i]))]

\* line 257 without its second conjunct
hmlr_unmatched_mask_keeps_excluded(h, r) ==
    {i \in 1..Len(h) : ~isin(h[i].clean_proprietor_name, roe_keys(r))}

\* line 257: the rows of hmlr_df kept
hmlr_unmatched_mask(h, r) ==
    {i \in 1..Len(h) :
        ~isin(h[i].clean_proprietor_name, roe_keys(r)) /\ ~h[i].excluded_bool}

\* line 267: the rows of roe_df kept
roe_unmatched_mask(r, h) ==
    {i \in 1..Len(r) :
        ~isin(r[i].clean_company_name, hmlr_keys(h)) /\ ~r[i].excluded_bool}

\* lines 258 and 268 without the sort: the rows stay in index order
sort_values_skipped(I, k) == {indices_from(I, 1, Len(k))}

\* lines 258 and 268: sort_values(by=[key]), the orders it may produce
sort_values(I, k) == sorted_orders(I, k)

\* line 258: drop("excluded_bool", axis=1)
hmlr_drop_excluded_bool(df) ==
    [i \in 1..Len(df) |->
        [title_number |-> df[i].title_number,
         proprietor_name |-> df[i].proprietor_name,
         proprietor_address_1 |-> df[i].proprietor_address_1,
         clean_proprietor_name |-> df[i].clean_proprietor_name]]

\* line 268: drop("excluded_bool", axis=1)
roe_drop_excluded_bool(df) ==
    [i \in 1..Len(df) |->
        [incorporation_number |-> df[i].incorporation_number,
         corporate_body_name |-> df[i].corporate_body_name,
         clean_company_name |-> df[i].clean_company_name]]

\* lines 274-277: drop_duplicates(subset=["clean_proprietor_name"], keep="first")
drop_duplicates(h) ==
    select(h, {i \in 1..Len(h) :
                  \A j \in 1..(i - 1) :
                      h[j].clean_proprietor_name # h[i].clean_proprietor_name})

\* lines 283-285
hmlr_unique_proprietors_count(u) == Len(u)

\* lines 286-288: sum() of the boolean column
hmlr_excluded_proprietors_count(u) ==
    Cardinality({i \in 1..Len(u) : u[i].excluded_bool})

\* lines 291-293 without .unique(): every unmatched row counted
hmlr_unmatched_roe_count_rows(um) == Len(um)

\* lines 291-293: len(... .unique())
hmlr_unmatched_roe_count(um) ==
    Cardinality({um[i].clean_proprietor_name : i \in 1..Len(um)})

\* line 294
hmlr_matched_roe_count(unique, unmatched, excluded) == unique - unmatched - excluded

\* lines 297-299, as the hundredths of a percent the report prints
matched_roe_percentage(matched, unique) == (2 * matched * 10000 + unique) \div (2 * unique)

Init ==
    /\ pc = "start"
    /\ hmlr_df = <<>>
    /\ roe_df = <<>>
    /\ exclusions_df = <<>>
    /\ hmlr_unmatched_in_roe_df = <<>>
    /\ roe_unmatched_in_hmlr_df = <<>>
    /\ outputs = {}
    /\ stats = NoStats
    /\ error = "none"
    /\ npc = "idle"
    /\ company_name = <<>>
    /\ key = <<>>
    /\ rekey = <<>>
    /\ rpc = "idle"
    /\ wide_df = <<>>
    /\ long_df = <<>>

\* lines 226-248: the three inputs are read, reshaped, keyed and flagged
GetData ==
    /\ pc = "start"
    /\ \E h \in HmlrTables, r \in RoeTables, e \in ExclusionLists :
          LET excl == exclusions_frame(e) IN
          /\ exclusions_df' = excl
          /\ hmlr_df' = hmlr_frame(h, excl)
          /\ roe_df' = roe_frame(r, excl)
    /\ pc' = "save_hmlr"
    /\ UNCHANGED <<hmlr_unmatched_in_roe_df, roe_unmatched_in_hmlr_df, outputs,
                   stats, error, normaliser_vars, reshape_vars>>

\* lines 29-30, 117-120, 149-152: an input is not there
GetDataFails ==
    /\ pc = "start"
    /\ pc' = "error"
    /\ error' = "FileNotFoundError"
    /\ UNCHANGED <<hmlr_df, roe_df, exclusions_df, hmlr_unmatched_in_roe_df,
                   roe_unmatched_in_hmlr_df, outputs, stats, normaliser_vars, reshape_vars>>

\* lines 256-262: the unmatched HMLR holdings are selected, sorted and written
SaveHmlrUnmatched ==
    /\ pc = "save_hmlr"
    /\ \E order \in sort_values(hmlr_unmatched_mask(hmlr_df, roe_df), hmlr_keys(hmlr_df)) :
          hmlr_unmatched_in_roe_df' = hmlr_drop_excluded_bool(take(hmlr_df, order))
    /\ \/ /\ outputs' = outputs \cup {"HMLR-unmatched.xlsx"}
          /\ pc' = "save_roe"
          /\ error' = error
       \/ /\ outputs' = outputs
          /\ pc' = "error"
          /\ error' = "OSError"
    /\ UNCHANGED <<hmlr_df, roe_df, exclusions_df, roe_unmatched_in_hmlr_df,
                   stats, normaliser_vars, reshape_vars>>

\* lines 266-272: the unmatched ROE entities are selected, sorted and written
SaveRoeUnmatched ==
    /\ pc = "save_roe"
    /\ \E order \in sort_values(roe_unmatched_mask(roe_df, hmlr_df), roe_keys(roe_df)) :
          roe_unmatched_in_hmlr_df' = roe_drop_excluded_bool(take(roe_df, order))
    /\ \/ /\ outputs' = outputs \cup {"ROE-unmatched.xlsx"}
          /\ pc' = "stats"
          /\ error' = error
       \/ /\ outputs' = outputs
          /\ pc' = "error"
          /\ error' = "OSError"
    /\ UNCHANGED <<hmlr_df, roe_df, exclusions_df, hmlr_unmatched_in_roe_df,
                   stats, normaliser_vars, reshape_vars>>

\* lines 274-319: the figures are computed and printed
Statistics ==
    /\ pc = "stats"
    /\ LET u == drop_duplicates(hmlr_df)
           unique == hmlr_unique_proprietors_count(u)
           excluded == hmlr_excluded_proprietors_count(u)
           unmatched == hmlr_unmatched_roe_count(hmlr_unmatched_in_roe_df)
           matched == hmlr_matched_roe_count(unique, unmatched, excluded)
       IN IF unique = 0
          THEN /\ pc' = "error"
               /\ error' = "ZeroDivisionError"
               /\ stats' = stats
          ELSE /\ pc' = "done"
               /\ error' = error
               /\ stats' = [printed |-> TRUE,
                            hmlr_unique_proprietors_count |-> unique,
                            hmlr_matched_roe_count |-> matched,
                            hmlr_excluded_proprietors_count |-> excluded,
                            hmlr_unmatched_roe_count |-> unmatched,
                            matched_roe_percentage |-> matched_roe_percentage(matched, unique),
                            roe_total |-> Len(roe_df)]
    /\ UNCHANGED <<hmlr_df, roe_df, exclusions_df, hmlr_unmatched_in_roe_df,
                   roe_unmatched_in_hmlr_df, outputs, normaliser_vars, reshape_vars>>

Next == GetData \/ GetDataFails \/ SaveHmlrUnmatched \/ SaveRoeUnmatched \/ Statistics

Spec == Init /\ [][Next]_vars

(***************************************************************************)
(* clean_company_name applied to one string, then to its own result.       *)
(***************************************************************************)
InitNorm ==
    /\ pc = "start"
    /\ hmlr_df = <<>>
    /\ roe_df = <<>>
    /\ exclusions_df = <<>>
    /\ hmlr_unmatched_in_roe_df = <<>>
    /\ roe_unmatched_in_hmlr_df = <<>>
    /\ outputs = {}
    /\ stats = NoStats
    /\ error = "none"
    /\ npc = "input"
    /\ company_name \in InputStrings
    /\ key = <<>>
    /\ rekey = <<>>
    /\ rpc = "idle"
    /\ wide_df = <<>>
    /\ long_df = <<>>

Normalise ==
    /\ npc = "input"
    /\ key' = clean_company_name(company_name)
    /\ npc' = "cleaned"
    /\ UNCHANGED <<company_name, rekey, pipeline_vars, reshape_vars>>

Renormalise ==
    /\ npc = "cleaned"
    /\ rekey' = clean_company_name(key)
    /\ npc' = "recleaned"
    /\ UNCHANGED <<company_name, key, pipeline_vars, reshape_vars>>

NextNorm == Normalise \/ Renormalise

SpecNorm == InitNorm /\ [][NextNorm]_vars

(***************************************************************************)
(* reshape_hmlr_proprietors applied to one table.                          *)
(***************************************************************************)
InitReshape ==
    /\ pc = "start"
    /\ hmlr_df = <<>>
    /\ roe_df = <<>>
    /\ exclusions_df = <<>>
    /\ hmlr_unmatched_in_roe_df = <<>>
    /\ roe_unmatched_in_hmlr_df = <<>>
    /\ outputs = {}
    /\ stats = NoStats
    /\ error = "none"
    /\ npc = "idle"
    /\ company_name = <<>>
    /\ key = <<>>
    /\ rekey = <<>>
    /\ rpc = "input"
    /\ wide_df \in ReshapeTables
    /\ long_df = <<>>

Reshape ==
    /\ rpc = "input"
    /\ long_df' = reshape_hmlr_proprietors(wide_df)
    /\ rpc' = "reshaped"
    /\ UNCHANGED <<wide_df, pipeline_vars, normaliser_vars>>

NextReshape == Reshape

SpecReshape == InitReshape /\ [][NextReshape]_vars

(***************************************************************************)
(* Properties of the reconciliation (specification Spec).                  *)
(***************************************************************************)
UniqueRecords == drop_duplicates(hmlr_df)

KeyExcluded(k) == isin(k, exclusions_df)

\* the record itself is a row of the HMLR-unmatched output
InHmlrUnmatched(rec) ==
    \E i \in 1..Len(hmlr_unmatched_in_roe_df) :
        /\ hmlr_unmatched_in_roe_df[i].title_number = rec.title_number
        /\ hmlr_unmatched_in_roe_df[i].proprietor_address_1 = rec.proprietor_address_1

IsExcluded(rec) == KeyExcluded(rec.clean_proprietor_name)

IsMatched(rec) ==
    /\ ~KeyExcluded(rec.clean_proprietor_name)
    /\ isin(rec.clean_proprietor_name, roe_keys(roe_df))

ExactlyOne(a, b, c) == (a /\ ~b /\ ~c) \/ (~a /\ b /\ ~c) \/ (~a /\ ~b /\ c)

Count(df, P(_)) == Cardinality({i \in 1..Len(df) : P(df[i])})

\* C1: when the run has completed, every first-seen unique HMLR record is in
\* exactly one of matched, excluded and unmatched; an excluded record is not in
\* the unmatched output even when the ROE side lacks its key; and the three
\* reported counts are the sizes of the three classes and sum to the unique count.
C1_PartitionComplete ==
    pc = "done" =>
        /\ \A i \in 1..Len(UniqueRecords) :
              LET rec == UniqueRecords[i] IN
              /\ ExactlyOne(IsMatched(rec), IsExcluded(rec), InHmlrUnmatched(rec))
              /\ IsExcluded(rec) => ~InHmlrUnmatched(rec)
        /\ stats.hmlr_excluded_proprietors_count = Count(UniqueRecords, IsExcluded)
        /\ stats.hmlr_unmatched_roe_count = Count(UniqueRecords, InHmlrUnmatched)
        /\ stats.hmlr_matched_roe_count + stats.hmlr_excluded_proprietors_count
             + stats.hmlr_unmatched_roe_count = stats.hmlr_unique_proprietors_count
        /\ stats.hmlr_unique_proprietors_count = Len(UniqueRecords)

\* a completed run with a matched record, an unmatched record, and an excluded
\* record whose key the ROE side lacks
C1_Witness ==
    /\ pc = "done"
    /\ \E i, j, l \in 1..Len(UniqueRecords) :
          /\ IsMatched(UniqueRecords[i])
          /\ InHmlrUnmatched(UniqueRecords[j])
          /\ IsExcluded(UniqueRecords[l])
          /\ ~isin(UniqueRecords[l].clean_proprietor_name, roe_keys(roe_df))

IsBlank(v) == \A i \in 1..Len(v) : IsSpace(v[i])

\* C5: no record with a blank, whitespace-only or null name is in the reshaped
\* HMLR table, and no row of either side with such a name carries a key that
\* takes part in matching.
C5_NoBlankOrNullName ==
    /\ \A i \in 1..Len(hmlr_df) :
          ~IsNull(hmlr_df[i].proprietor_name) /\ ~IsBlank(hmlr_df[i].proprietor_name)
    /\ \A i \in 1..Len(roe_df) :
          ~IsNull(roe_df[i].corporate_body_name) /\ ~IsBlank(roe_df[i].corporate_body_name)

\* C6: a run with an empty HMLR or ROE side never completes with figures, and
\* the computation does not end in another error than InvalidInputError.
C6_EmptySideIsInvalidInput ==
    (pc \in {"done", "error"} /\ error # "FileNotFoundError"
        /\ (Len(hmlr_df) = 0 \/ Len(roe_df) = 0))
    => (pc = "error" /\ error \in {"InvalidInputError", "OSError"})

\* C7: a run that has ended in an error has written no unmatched output.
C7_NoPartialResult == pc = "error" => outputs = {}

Ascending(keys) == \A i \in 1..(Len(keys) - 1) : ~str_lt(keys[i + 1], keys[i])

Rows(df) == {df[i] : i \in 1..Len(df)}

\* C9: each unmatched output that has been written has its keys ascending and
\* holds exactly the rows (duplicates of a key all kept) that are not excluded
\* and whose key the opposite side lacks, whatever the row order of the inputs.
C9_SortedAndExact ==
    /\ "HMLR-unmatched.xlsx" \in outputs =>
          /\ Ascending(hmlr_keys(hmlr_unmatched_in_roe_df))
          /\ Len(hmlr_unmatched_in_roe_df) = Cardinality(Rows(hmlr_unmatched_in_roe_df))
          /\ Rows(hmlr_unmatched_in_roe_df) =
                {hmlr_drop_excluded_bool(<<rec>>)[1] :
                    rec \in {x \in Rows(hmlr_df) :
                                /\ ~KeyExcluded(x.clean_proprietor_name)
                                /\ ~isin(x.clean_proprietor_name, roe_keys(roe_df))}}
    /\ "ROE-unmatched.xlsx" \in outputs =>
          /\ Ascending(roe_keys(roe_unmatched_in_hmlr_df))
          /\ Len(roe_unmatched_in_hmlr_df) = Cardinality(Rows(roe_unmatched_in_hmlr_df))
          /\ Rows(roe_unmatched_in_hmlr_df) =
                {roe_drop_excluded_bool(<<rec>>)[1] :
                    rec \in {x \in Rows(roe_df) :
                                /\ ~KeyExcluded(x.clean_company_name)
                                /\ ~isin(x.clean_company_name, hmlr_keys(hmlr_df))}}

\* both outputs written; the HMLR one holds two rows of one key and a second
\* key, and on both sides unmatched rows arrived in descending key order
C9_Witness ==
    /\ outputs = {"HMLR-unmatched.xlsx", "ROE-unmatched.xlsx"}
    /\ \E i, j \in 1..Len(hmlr_unmatched_in_roe_df) :
          /\ i # j
          /\ hmlr_unmatched_in_roe_df[i].clean_proprietor_name
               = hmlr_unmatched_in_roe_df[j].clean_proprietor_name
    /\ \E i, j \in hmlr_unmatched_mask(hmlr_df, roe_df) :
          i < j /\ str_lt(hmlr_df[j].clean_proprietor_name, hmlr_df[i].clean_proprietor_name)
    /\ \E i, j \in roe_unmatched_mask(roe_df, hmlr_df) :
          i < j /\ str_lt(roe_df[j].clean_company_name, roe_df[i].clean_company_name)

HmlrKeySet == {hmlr_df[i].clean_proprietor_name : i \in 1..Len(hmlr_df)}

\* C10: the reported matched count is never negative and is the number of
\* distinct HMLR keys that are not excluded and that the ROE side holds.
C10_MatchedCount ==
    pc = "done" =>
        /\ stats.hmlr_matched_roe_count >= 0
        /\ stats.hmlr_matched_roe_count =
              Cardinality({k \in HmlrKeySet :
                              ~KeyExcluded(k) /\ isin(k, roe_keys(roe_df))})

\* a completed run with a key repeated among the unmatched HMLR rows, a key
\* repeated on the ROE side, and a matched key
C10_Witness ==
    /\ pc = "done"
    /\ stats.hmlr_matched_roe_count > 0
    /\ Len(hmlr_unmatched_in_roe_df) > stats.hmlr_unmatched_roe_count
    /\ \E i, j \in 1..Len(roe_df) :
          i # j /\ roe_df[i].clean_company_name = roe_df[j].clean_company_name

(***************************************************************************)
(* Properties of clean_company_name (specification SpecNorm).              *)
(***************************************************************************)
\* C2: cleaning a cleaned key gives the key back.
C2_Idempotent == npc = "recleaned" => rekey = key

\* C3: a key holds only lower-case letters and digits.
C3_AlphanumericKey ==
    npc \in {"cleaned", "recleaned"} =>
        \A i \in 1..Len(key) : key[i] \in LowerLetters \cup Digits

SpacedSrl == <<" ", "s", " ", "r", " ", "l">>

\* C4: a name that ends in the spaced-out form " s r l" gets the key of the
\* name without that ending.
C4_SpacedSrlRemoved ==
    (/\ npc \in {"cleaned", "recleaned"}
     /\ Len(company_name) > Len(SpacedSrl)
     /\ last_n(company_name, Len(SpacedSrl)) = SpacedSrl)
    => key = clean_company_name(del_last_n(company_name, Len(SpacedSrl)))

(***************************************************************************)
(* Properties of reshape_hmlr_proprietors (specification SpecReshape).     *)
(***************************************************************************)
RecordsOfRow(r) == {p \in 1..Len(long_df) : long_df[p].title_number = r}

\* C8 as stated: the records come row by row, and by slot within a row.
C8_RowMajor ==
    rpc = "reshaped" =>
        \A p, q \in 1..Len(long_df) :
            p < q =>
                \/ long_df[p].title_number < long_df[q].title_number
                \/ /\ long_df[p].title_number = long_df[q].title_number
                   /\ long_df[p].proprietor_address_1 < long_df[q].proprietor_address_1

\* C8, amended: the records come slot by slot, and in input row order within a
\* slot; so the records of one row are in ascending slot order, and each row
\* gives 0..4 records.
C8_SlotMajor ==
    rpc = "reshaped" =>
        /\ \A p, q \in 1..Len(long_df) :
              p < q =>
                  \/ long_df[p].proprietor_address_1 < long_df[q].proprietor_address_1
                  \/ /\ long_df[p].proprietor_address_1 = long_df[q].proprietor_address_1
                     /\ long_df[p].title_number < long_df[q].title_number
        /\ \A p \in 1..Len(long_df) : long_df[p].title_number \in 1..Len(wide_df)
        /\ \A r \in 1..Len(wide_df) : Cardinality(RecordsOfRow(r)) \in 0..NUM_PROPRIETORS

\* a reshaped table with a row of four records, a row of none, and a record of
\* a later row ahead of a record of an earlier row
C8_Witness ==
    /\ rpc = "reshaped"
    /\ \E r \in 1..Len(wide_df) : Cardinality(RecordsOfRow(r)) = NUM_PROPRIETORS
    /\ \E r \in 1..Len(wide_df) : Cardinality(RecordsOfRow(r)) = 0
    /\ \E p, q \in 1..Len(long_df) :
          p < q /\ long_df[p].title_number > long_df[q].title_number

====
